---- MODULE Spec2Model ----
(***************************************************************************)
(* Layout engine of the homelab dashboard: the settings store              *)
(* (frontend/src/lib/stores/settings.ts) that owns the DashboardSettings   *)
(* aggregate, its grid operations and its persistence to localStorage.     *)
(*                                                                         *)
(* Object identity matters in the store: writable(initialSettings) holds a *)
(* reference, every operation mutates the held object in place, and when   *)
(* nothing was stored the held object IS the module-level defaultSettings. *)
(* The model keeps the module-level object (defaultSettings), the store's  *)
(* value (settings) and whether they are one object (aliased).             *)
(*                                                                         *)
(* Array indices are 1-based here; the code's findIndex result -1 is 0.    *)
(*                                                                         *)
(* The interaction controller of one card                                  *)
(* (frontend/src/lib/components/DraggableCard.svelte, first script) is     *)
(* the variable component; its card prop is the store's card of that id.   *)
(* Subscribers of the store other than its own are not part of the model.  *)
(***************************************************************************)
EXTENDS Integers, Sequences, FiniteSets, TLC

VARIABLES
    settings,         \* the value held by writable<DashboardSettings>
    defaultSettings,  \* the module-level const object defaultSettings
    aliased,          \* TRUE iff the store's value is the defaultSettings object
    persisted,        \* localStorage entry 'dashboard-settings'
    storageFails,     \* environment: localStorage.setItem throws (quota, private mode)
    threw,            \* the last operation raised an error to its caller
    component,        \* state of one DraggableCard instance and its window
    last,             \* history: the last operation and the branch it took
    budget            \* number of operations the run may still perform

vars == <<settings, defaultSettings, aliased, persisted, storageFails, threw,
          component, last, budget>>

\* ---------------------------------------------------------------- bounds
\* operations per run of the grid operations (SpecGrid)
MaxSteps == 3
\* operations per run of the whole store (Spec)
MaxOps == 2

\* ------------------------------------------------------- program constants
headerHeight == 88
FallbackCellWidth == 200
FallbackCellHeight == 150
browser == TRUE

Directions == {"up", "down", "left", "right"}

\* "no value" for gridPosition (undefined in the code): a falsy record
NoGridPosition == [row |-> 0, col |-> 0, rowSpan |-> 0, colSpan |-> 0]

\* "no value" for gridCellSize (undefined or null in the code)
NoCellSize == [width |-> 0, height |-> 0]

\* "no entry" in localStorage (getItem returns null)
NoEntry == [kind |-> "null"]

defaultCards ==
    << [id |-> "system-info", name |-> "System Information", enabled |-> TRUE,
        order |-> 0, size |-> "medium",
        position |-> [x |-> 50, y |-> 120],
        dimensions |-> [width |-> 400, height |-> 300],
        gridPosition |-> [row |-> 0, col |-> 0, rowSpan |-> 2, colSpan |-> 2],
        canExpandUp |-> FALSE, canExpandDown |-> TRUE,
        canExpandLeft |-> FALSE, canExpandRight |-> TRUE,
        isSnappedToGrid |-> TRUE],
       [id |-> "services-list", name |-> "Services & Processes", enabled |-> TRUE,
        order |-> 1, size |-> "large",
        position |-> [x |-> 500, y |-> 120],
        dimensions |-> [width |-> 500, height |-> 400],
        gridPosition |-> [row |-> 0, col |-> 2, rowSpan |-> 2, colSpan |-> 3],
        canExpandUp |-> FALSE, canExpandDown |-> TRUE,
        canExpandLeft |-> TRUE, canExpandRight |-> TRUE,
        isSnappedToGrid |-> TRUE],
       [id |-> "network-status", name |-> "Network Status", enabled |-> TRUE,
        order |-> 2, size |-> "small",
        position |-> [x |-> 50, y |-> 450],
        dimensions |-> [width |-> 350, height |-> 250],
        gridPosition |-> [row |-> 2, col |-> 0, rowSpan |-> 1, colSpan |-> 2],
        canExpandUp |-> TRUE, canExpandDown |-> TRUE,
        canExpandLeft |-> FALSE, canExpandRight |-> TRUE,
        isSnappedToGrid |-> TRUE],
       [id |-> "file-browser", name |-> "File Browser", enabled |-> TRUE,
        order |-> 3, size |-> "medium",
        position |-> [x |-> 1050, y |-> 120],
        dimensions |-> [width |-> 450, height |-> 300],
        gridPosition |-> [row |-> 2, col |-> 2, rowSpan |-> 2, colSpan |-> 2],
        canExpandUp |-> TRUE, canExpandDown |-> FALSE,
        canExpandLeft |-> TRUE, canExpandRight |-> FALSE,
        isSnappedToGrid |-> TRUE] >>

\* the hard-coded literal of defaultSettings (the variable defaultSettings is
\* the live object, which the operations may mutate)
DefaultSettingsLiteral ==
    [layoutMode |-> "grid",
     gridSize |-> [cols |-> 6, rows |-> 4],
     cards |-> defaultCards,
     snapToGrid |-> TRUE,
     gridCellSize |-> [width |-> 200, height |-> 150],
     magneticSnapping |-> TRUE,
     snapThreshold |-> 20]

\* ------------------------------------------------------------ JS helpers
Min(a, b) == IF a < b THEN a ELSE b
Max(a, b) == IF a > b THEN a ELSE b

\* Math.round(n / d) for integers n and d > 0: halves round towards +infinity
MathRound(n, d) == (2 * n + d) \div (2 * d)

\* Array.prototype.findIndex(card => card.id === id); 0 when there is none
findIndex(cards, id) ==
    IF \E i \in 1..Len(cards) : cards[i].id = id
    THEN CHOOSE i \in 1..Len(cards) :
            /\ cards[i].id = id
            /\ \A j \in 1..(i - 1) : cards[j].id # id
    ELSE 0

\* { ...card, ...updates }
Merge(card, updates) ==
    [f \in DOMAIN card |-> IF f \in DOMAIN updates THEN updates[f] ELSE card[f]]

\* ------------------------------------------------------ geometry converter
\* settings.gridCellSize || { width: 200, height: 150 }
cellSizeOf(s) ==
    IF s.gridCellSize = NoCellSize
    THEN [width |-> FallbackCellWidth, height |-> FallbackCellHeight]
    ELSE s.gridCellSize

\* faulty variant: the page header is not accounted for
gridToAbsolutePositionNoHeader(gridPos, s) ==
    [x |-> gridPos.col * cellSizeOf(s).width,
     y |-> gridPos.row * cellSizeOf(s).height]

gridToAbsolutePosition(gridPos, s) ==
    [x |-> gridPos.col * cellSizeOf(s).width,
     y |-> headerHeight + gridPos.row * cellSizeOf(s).height]

gridToDimensions(gridPos, s) ==
    [width |-> gridPos.colSpan * cellSizeOf(s).width,
     height |-> gridPos.rowSpan * cellSizeOf(s).height]

\* ------------------------------------------------------ collision resolver
\* faulty variant: the column test forgets the other card's colSpan
rectsCollideNoSpan(newGridPos, otherPos) ==
    ~ ( \/ newGridPos.col >= otherPos.col
        \/ newGridPos.col + newGridPos.colSpan <= otherPos.col
        \/ newGridPos.row >= otherPos.row + otherPos.rowSpan
        \/ newGridPos.row + newGridPos.rowSpan <= otherPos.row )

\* the rectangle-exclusion test of expandCard and snapToGrid
rectsCollide(newGridPos, otherPos) ==
    ~ ( \/ newGridPos.col >= otherPos.col + otherPos.colSpan
        \/ newGridPos.col + newGridPos.colSpan <= otherPos.col
        \/ newGridPos.row >= otherPos.row + otherPos.rowSpan
        \/ newGridPos.row + newGridPos.rowSpan <= otherPos.row )

\* faulty variant: only the cards before the moved one are tested
hasCollisionBefore(cards, cardIndex, newGridPos) ==
    \E index \in 1..(cardIndex - 1) :
        /\ ~ ( \/ ~cards[index].enabled
               \/ cards[index].gridPosition = NoGridPosition )
        /\ rectsCollide(newGridPos, cards[index].gridPosition)

\* settings.cards.some((otherCard, index) => ...)
hasCollision(cards, cardIndex, newGridPos) ==
    \E index \in 1..Len(cards) :
        /\ ~ ( \/ index = cardIndex
               \/ ~cards[index].enabled
               \/ cards[index].gridPosition = NoGridPosition )
        /\ rectsCollide(newGridPos, cards[index].gridPosition)

\* ------------------------------------------------------------ persistence
\* JSON.stringify(settings): the text of a full-schema object.  The text is
\* modelled by its parse tree; a card without gridPosition (undefined) is
\* written without that key.
cardToJSON(card) ==
    IF card.gridPosition = NoGridPosition
    THEN [f \in (DOMAIN card) \ {"gridPosition"} |-> card[f]]
    ELSE card

JSONstringify(s) ==
    [kind |-> "object",
     layoutMode |-> s.layoutMode,
     gridSize |-> s.gridSize,
     cards |-> [i \in 1..Len(s.cards) |-> cardToJSON(s.cards[i])],
     snapToGrid |-> s.snapToGrid,
     gridCellSize |-> s.gridCellSize,
     magneticSnapping |-> s.magneticSnapping,
     snapThreshold |-> s.snapThreshold]

\* JSON null as a stored value
JSNull == [null |-> TRUE]

\* parsed.find(card => card.id === defaultCard.id): the first element with
\* that id, 0 when there is none; an element without an id never matches
findStored(storedCards, id) ==
    LET hits == {k \in 1..Len(storedCards) :
                    /\ "id" \in DOMAIN storedCards[k]
                    /\ storedCards[k].id = id}
    IN IF hits = {} THEN 0
       ELSE CHOOSE k \in hits : \A j \in hits : k <= j

\* the find callback reads card.id: it throws on a null element that find
\* reaches, which it does unless a match comes first
findThrows(storedCards) ==
    \E k \in 1..Len(storedCards) :
        /\ storedCards[k] = JSNull
        /\ \E i \in 1..Len(defaultCards) :
              LET m == findStored(storedCards, defaultCards[i].id)
              IN m = 0 \/ m > k

\* storedCard.f || defaultCard.f  (a missing key, null and '' are falsy)
OrDefault(storedCard, defaultCard, f) ==
    IF f \notin DOMAIN storedCard THEN defaultCard[f]
    ELSE IF f = "size"
         THEN (IF storedCard[f] = "" THEN defaultCard[f] ELSE storedCard[f])
         ELSE (IF storedCard[f] = JSNull THEN defaultCard[f] ELSE storedCard[f])

\* a new-format load that drops the stored card's own fields
loadCardWithoutSpread(defaultCard, storedCards) ==
    LET k == findStored(storedCards, defaultCard.id) IN
    IF k = 0 THEN defaultCard
    ELSE LET storedCard == storedCards[k]
         IN [defaultCard EXCEPT
               !.position = OrDefault(storedCard, defaultCard, "position"),
               !.dimensions = OrDefault(storedCard, defaultCard, "dimensions"),
               !.size = OrDefault(storedCard, defaultCard, "size"),
               !.gridPosition = OrDefault(storedCard, defaultCard, "gridPosition")]

\* one element of defaultSettings.cards.map(...) in the new-format branch
loadCard(defaultCard, storedCards) ==
    LET k == findStored(storedCards, defaultCard.id) IN
    IF k = 0 THEN defaultCard
    ELSE LET storedCard == storedCards[k]
             merged == Merge(defaultCard, storedCard)
         IN [merged EXCEPT
               !.position = OrDefault(storedCard, defaultCard, "position"),
               !.dimensions = OrDefault(storedCard, defaultCard, "dimensions"),
               !.size = OrDefault(storedCard, defaultCard, "size"),
               !.gridPosition = OrDefault(storedCard, defaultCard, "gridPosition")]

\* a legacy load that takes every field but position, dimensions and size
\* from the default card
loadLegacyCardWithoutSpread(defaultCard, parsed) ==
    LET k == findStored(parsed, defaultCard.id) IN
    IF k = 0 THEN defaultCard
    ELSE LET storedCard == parsed[k]
         IN [defaultCard EXCEPT
               !.position = OrDefault(storedCard, defaultCard, "position"),
               !.dimensions = OrDefault(storedCard, defaultCard, "dimensions"),
               !.size = OrDefault(storedCard, defaultCard, "size")]

\* one element of defaultSettings.cards.map(...) in the legacy branch:
\* gridPosition always comes from the default card
loadLegacyCard(defaultCard, parsed) ==
    LET k == findStored(parsed, defaultCard.id) IN
    IF k = 0 THEN defaultCard
    ELSE LET storedCard == parsed[k]
             merged == Merge(defaultCard, storedCard)
         IN [merged EXCEPT
               !.position = OrDefault(storedCard, defaultCard, "position"),
               !.dimensions = OrDefault(storedCard, defaultCard, "dimensions"),
               !.size = OrDefault(storedCard, defaultCard, "size"),
               !.gridPosition = defaultCard.gridPosition]

\* faulty variant: the new-format branch maps over the stored cards, so
\* the collection has the stored cards in the stored sequence
createSettingsStoredCards(storedData) ==
    LET theDefaults ==
            [initialSettings |-> DefaultSettingsLiteral, isDefaultObject |-> TRUE]
    IN
    CASE storedData.kind \in {"null", "unparseable", "jsonnull"} -> theDefaults
      [] storedData.kind = "number" ->
            [initialSettings |-> DefaultSettingsLiteral, isDefaultObject |-> FALSE]
      [] storedData.kind = "array" ->
            IF findThrows(storedData.elements) THEN theDefaults
            ELSE [initialSettings |->
                    [DefaultSettingsLiteral EXCEPT
                       !.cards = [i \in 1..Len(defaultCards) |->
                                    loadLegacyCard(defaultCards[i],
                                                   storedData.elements)]],
                  isDefaultObject |-> FALSE]
      [] storedData.kind = "object" ->
            IF "cardsOther" \in DOMAIN storedData THEN theDefaults
            ELSE IF "cards" \notin DOMAIN storedData
            THEN [initialSettings |-> Merge(DefaultSettingsLiteral, storedData),
                  isDefaultObject |-> FALSE]
            ELSE IF findThrows(storedData.cards) THEN theDefaults
            ELSE [initialSettings |->
                    [Merge(DefaultSettingsLiteral, storedData) EXCEPT
                       !.cards = [k \in 1..Len(storedData.cards) |->
                                    LET d == findIndex(defaultCards,
                                                       storedData.cards[k].id)
                                    IN IF d = 0 THEN storedData.cards[k]
                                       ELSE loadCard(defaultCards[d],
                                                     storedData.cards)]],
                  isDefaultObject |-> FALSE]

\* createSettings, up to the writable(initialSettings) call: the object the
\* store starts with and whether it is the defaultSettings object itself.
\* storedData is the entry by its parse: "null" no entry, "unparseable"
\* JSON.parse throws, "jsonnull" the text null, "number" a number, "array"
\* a list (elements), "object" an object by its keys (a cards value that is
\* no list is kept under cardsOther).  Every throw inside the try block
\* ends in the catch, which takes the defaultSettings object.
createSettings(storedData) ==
    LET theDefaults ==
            [initialSettings |-> DefaultSettingsLiteral, isDefaultObject |-> TRUE]
    IN
    CASE storedData.kind \in {"null", "unparseable", "jsonnull"} -> theDefaults
      [] storedData.kind = "number" ->
            [initialSettings |-> DefaultSettingsLiteral, isDefaultObject |-> FALSE]
      [] storedData.kind = "array" ->
            IF findThrows(storedData.elements) THEN theDefaults
            ELSE [initialSettings |->
                    [DefaultSettingsLiteral EXCEPT
                       !.cards = [i \in 1..Len(defaultCards) |->
                                    loadLegacyCard(defaultCards[i],
                                                   storedData.elements)]],
                  isDefaultObject |-> FALSE]
      [] storedData.kind = "object" ->
            IF "cardsOther" \in DOMAIN storedData THEN theDefaults
            ELSE IF "cards" \notin DOMAIN storedData
            THEN [initialSettings |-> Merge(DefaultSettingsLiteral, storedData),
                  isDefaultObject |-> FALSE]
            ELSE IF findThrows(storedData.cards) THEN theDefaults
            ELSE [initialSettings |->
                    [Merge(DefaultSettingsLiteral, storedData) EXCEPT
                       !.cards = [i \in 1..Len(defaultCards) |->
                                    loadCard(defaultCards[i], storedData.cards)]],
                  isDefaultObject |-> FALSE]

\* ------------------------------------------------------------- inputs
CardIds == {"system-info", "services-list", "network-status", "file-browser"}
UnknownId == "no-such-card"
IdInputs == CardIds \cup {UnknownId}

\* points handed to snapToGrid: left of the grid, on the half-cell boundary
\* of round(), and so far right or down that the span is clamped back
SnapXs == {-150, 100, 700}
SnapYs == {74, 300}

\* partial cards handed to updateCard: the enabled toggle of the settings
\* dialog, a position written by a drag, dimensions written by a resize
UpdateInputs ==
    { [enabled |-> FALSE], [enabled |-> TRUE],
      [position |-> [x |-> 230, y |-> 88]],
      [dimensions |-> [width |-> 300, height |-> 200]] }

LayoutModes == {"grid", "freeform"}

\* <<dragged index, drop index>> of a drop in the settings list (1-based)
DragDropPairs == {<<1, 3>>, <<4, 2>>, <<2, 1>>}

\* entries localStorage may hold when the store is constructed
\* (nothing; the defaults as an earlier session wrote them; an earlier
\* session that switched services-list off)
InitialEntries ==
    { NoEntry,
      JSONstringify(DefaultSettingsLiteral),
      JSONstringify([DefaultSettingsLiteral EXCEPT !.cards[2].enabled = FALSE]) }

\* a card as the earlier array-only store wrote it (no gridPosition, no
\* expand flags)
legacyCard(id, name, enabled, order, size, x, y, width, height) ==
    [id |-> id, name |-> name, enabled |-> enabled, order |-> order,
     size |-> size, position |-> [x |-> x, y |-> y],
     dimensions |-> [width |-> width, height |-> height]]

\* bare card lists of the legacy format: one partial card; the four cards
\* as the earlier store wrote them after a reorder, a toggle and a drag; a
\* list with a card of an id that no longer exists and one id twice
LegacyEntries ==
    { [kind |-> "array",
       elements |-> << [id |-> "system-info", enabled |-> FALSE] >>],
      [kind |-> "array",
       elements |->
         << legacyCard("file-browser", "File Browser", TRUE, 0, "medium",
                       1050, 120, 450, 300),
            legacyCard("system-info", "System Information", FALSE, 1, "medium",
                       50, 120, 400, 300),
            legacyCard("services-list", "Services & Processes", TRUE, 2, "full",
                       640, 200, 500, 400),
            legacyCard("network-status", "Network Status", TRUE, 3, "small",
                       50, 450, 350, 250) >>],
      [kind |-> "array",
       elements |->
         << legacyCard("docker-stats", "Docker", TRUE, 0, "small",
                       10, 100, 300, 200),
            [id |-> "network-status", order |-> 5, size |-> "large"],
            [id |-> "network-status", order |-> 9] >>] }

\* entries that are no text of a DashboardSettings and no legacy list: no
\* JSON at all, the texts null and 5, lists holding null or numbers, an
\* object whose cards is a number, objects with a value of the wrong kind
MalformedEntries ==
    { [kind |-> "unparseable"],
      [kind |-> "jsonnull"],
      [kind |-> "number"],
      [kind |-> "array", elements |-> << JSNull >>],
      [kind |-> "array",
       elements |-> << [id |-> "system-info", enabled |-> FALSE], JSNull >>],
      [kind |-> "array", elements |-> << [value |-> 1], [value |-> 2] >>],
      [kind |-> "object", cardsOther |-> 5],
      [kind |-> "object", layoutMode |-> "tiles"],
      [kind |-> "object", layoutMode |-> "freeform",
       cards |-> << [id |-> "system-info", position |-> JSNull, size |-> ""] >>,
       snapThreshold |-> 0] }

\* an object an intermediate version wrote: layout mode and cards only
OlderObjectEntry ==
    [kind |-> "object", layoutMode |-> "freeform",
     cards |-> << [id |-> "services-list", enabled |-> FALSE,
                   gridPosition |-> [row |-> 2, col |-> 3,
                                     rowSpan |-> 1, colSpan |-> 1]] >>]

\* entries localStorage may hold when a page loads (SpecLoad)
StoredEntries ==
    InitialEntries \cup LegacyEntries \cup MalformedEntries \cup {OlderObjectEntry}

\* ------------------------------------------------------------- the store
\* a DraggableCard right after its script ran: both gestures idle, nothing
\* attached to the document
mounted(cardId, layoutMode, window) ==
    [cardId |-> cardId,
     layoutMode |-> layoutMode,
     isDragging |-> FALSE,
     isResizing |-> FALSE,
     dragStartPos |-> [x |-> 0, y |-> 0],
     dragStartCardPos |-> [x |-> 0, y |-> 0],
     resizeStartPos |-> [x |-> 0, y |-> 0],
     resizeStartDimensions |-> [width |-> 0, height |-> 0],
     listeners |-> << >>,
     window |-> window]

\* the card and window the store-only specifications keep fixed
NoComponent ==
    mounted("system-info", "freeform",
            [innerWidth |-> 1200, innerHeight |-> 688, scrollY |-> 0])

\* a first visit: nothing stored
InitFresh ==
    /\ storageFails = FALSE
    /\ threw = FALSE
    /\ component = NoComponent
    /\ settings = createSettings(NoEntry).initialSettings
    /\ aliased = createSettings(NoEntry).isDefaultObject
    /\ defaultSettings = DefaultSettingsLiteral
    /\ persisted = NoEntry
    /\ last = [op |-> "createSettings", outcome |-> "constructed"]
    /\ budget = MaxSteps

Init ==
    \E storedData \in InitialEntries :
        LET c == createSettings(storedData) IN
        /\ storageFails = FALSE
        /\ threw = FALSE
        /\ component = NoComponent
        /\ settings = c.initialSettings
        /\ aliased = c.isDefaultObject
        /\ defaultSettings = DefaultSettingsLiteral
        /\ persisted = storedData
        /\ last = [op |-> "createSettings", outcome |-> "constructed"]
        /\ budget = MaxOps

\* faulty variant: the entry is written before the object is mutated
MutatePersistFirst(newSettings, write) ==
    /\ settings' = newSettings
    /\ defaultSettings' = IF aliased THEN newSettings ELSE defaultSettings
    /\ aliased' = aliased
    /\ persisted' = IF write /\ browser /\ ~storageFails
                    THEN JSONstringify(settings) ELSE persisted
    /\ threw' = (write /\ browser /\ storageFails)
    /\ storageFails' = storageFails

\* The update callback mutated the held object into newSettings (the same
\* object as defaultSettings when aliased) and, when write holds, ran
\* localStorage.setItem('dashboard-settings', JSON.stringify(settings)).
\* setItem is not guarded: when it throws, the mutation has already been
\* made in place and the error leaves the operation.
Mutate(newSettings, write) ==
    /\ settings' = newSettings
    /\ defaultSettings' = IF aliased THEN newSettings ELSE defaultSettings
    /\ aliased' = aliased
    /\ persisted' = IF write /\ browser /\ ~storageFails
                    THEN JSONstringify(newSettings) ELSE persisted
    /\ threw' = (write /\ browser /\ storageFails)
    /\ storageFails' = storageFails

\* bookkeeping of one store operation; the operations of the store do not
\* touch the component
Step(record) ==
    /\ budget > 0
    /\ budget' = budget - 1
    /\ last' = record
    /\ component' = component

\* faulty variant: the updates are merged into every card, the id is only
\* looked up
updateCardEveryCard(id, updates) ==
    LET cardIndex == findIndex(settings.cards, id) IN
    /\ Step([op |-> "updateCard", outcome |-> IF cardIndex # 0 THEN "committed" ELSE "unknown-id"])
    /\ Mutate(IF cardIndex # 0
              THEN [settings EXCEPT
                      !.cards = [k \in 1..Len(settings.cards) |->
                                    Merge(settings.cards[k], updates)]]
              ELSE settings,
              TRUE)

\* updateCard(id, updates)
updateCard(id, updates) ==
    LET cardIndex == findIndex(settings.cards, id) IN
    /\ Step([op |-> "updateCard", outcome |-> IF cardIndex # 0 THEN "committed" ELSE "unknown-id"])
    /\ Mutate(IF cardIndex # 0
              THEN [settings EXCEPT
                      !.cards[cardIndex] = Merge(settings.cards[cardIndex], updates)]
              ELSE settings,
              TRUE)

\* updateLayoutMode(mode)
updateLayoutMode(mode) ==
    /\ Step([op |-> "updateLayoutMode", outcome |-> "committed"])
    /\ Mutate([settings EXCEPT !.layoutMode = mode], TRUE)

\* reorderCards(newOrder)
reorderCards(newOrder) ==
    /\ Step([op |-> "reorderCards", outcome |-> "committed"])
    /\ Mutate([settings EXCEPT !.cards = newOrder], TRUE)

\* reset(): set(defaultSettings) makes the store hold the module-level
\* object, whatever it contains by now, and that object is persisted
reset ==
    /\ Step([op |-> "reset", outcome |-> "committed"])
    /\ settings' = defaultSettings
    /\ aliased' = TRUE
    /\ defaultSettings' = defaultSettings
    /\ persisted' = IF browser /\ ~storageFails
                    THEN JSONstringify(defaultSettings) ELSE persisted
    /\ threw' = (browser /\ storageFails)
    /\ storageFails' = storageFails

\* faulty variant: the switch without its boundary tests
expandGridPosUnbounded(gridPos, direction, gridSize) ==
    CASE direction = "up" -> [gridPos EXCEPT !.row = @ - 1, !.rowSpan = @ + 1]
      [] direction = "down" -> [gridPos EXCEPT !.rowSpan = @ + 1]
      [] direction = "left" -> [gridPos EXCEPT !.col = @ - 1, !.colSpan = @ + 1]
      [] direction = "right" -> [gridPos EXCEPT !.colSpan = @ + 1]

\* the switch (direction) of expandCard
expandGridPos(gridPos, direction, gridSize) ==
    CASE direction = "up" ->
            IF gridPos.row > 0
            THEN [gridPos EXCEPT !.row = @ - 1, !.rowSpan = @ + 1]
            ELSE gridPos
      [] direction = "down" ->
            IF gridPos.row + gridPos.rowSpan < gridSize.rows
            THEN [gridPos EXCEPT !.rowSpan = @ + 1]
            ELSE gridPos
      [] direction = "left" ->
            IF gridPos.col > 0
            THEN [gridPos EXCEPT !.col = @ - 1, !.colSpan = @ + 1]
            ELSE gridPos
      [] direction = "right" ->
            IF gridPos.col + gridPos.colSpan < gridSize.cols
            THEN [gridPos EXCEPT !.colSpan = @ + 1]
            ELSE gridPos

\* faulty variant: the new rectangle is stored, position and dimensions
\* are left as they were
withGridPosStale(card, newGridPos, s) ==
    [card EXCEPT !.gridPosition = newGridPos]

\* the card written by expandCard and shrinkCard
withGridPos(card, newGridPos, s) ==
    [card EXCEPT !.gridPosition = newGridPos,
                 !.position = gridToAbsolutePosition(newGridPos, s),
                 !.dimensions = gridToDimensions(newGridPos, s)]

\* expandCard(cardId, direction)
expandCard(cardId, direction) ==
    LET cardIndex == findIndex(settings.cards, cardId) IN
    IF cardIndex = 0
    THEN /\ Step([op |-> "expandCard", outcome |-> "unknown-id"])
         /\ Mutate(settings, FALSE)
    ELSE LET card == settings.cards[cardIndex]
             gridPos == card.gridPosition
         IN
         IF gridPos = NoGridPosition
         THEN /\ Step([op |-> "expandCard", outcome |-> "no-grid-position"])
              /\ Mutate(settings, FALSE)
         ELSE LET newGridPos == expandGridPos(gridPos, direction, settings.gridSize)
                  collision == hasCollision(settings.cards, cardIndex, newGridPos)
              IN
              /\ Step([op |-> "expandCard", outcome |-> IF collision THEN "collision"
                                   ELSE IF newGridPos = gridPos THEN "boundary"
                                   ELSE "committed"])
              /\ Mutate(IF ~collision
                        THEN [settings EXCEPT
                                !.cards[cardIndex] = withGridPos(card, newGridPos, settings)]
                        ELSE settings,
                        TRUE)

\* faulty variant: the guards test span > 0
shrinkGridPosToZero(gridPos, direction) ==
    CASE direction = "up" ->
            IF gridPos.rowSpan > 0
            THEN [gridPos EXCEPT !.row = @ + 1, !.rowSpan = @ - 1]
            ELSE gridPos
      [] direction = "down" ->
            IF gridPos.rowSpan > 0
            THEN [gridPos EXCEPT !.rowSpan = @ - 1]
            ELSE gridPos
      [] direction = "left" ->
            IF gridPos.colSpan > 0
            THEN [gridPos EXCEPT !.col = @ + 1, !.colSpan = @ - 1]
            ELSE gridPos
      [] direction = "right" ->
            IF gridPos.colSpan > 0
            THEN [gridPos EXCEPT !.colSpan = @ - 1]
            ELSE gridPos

\* faulty variant: 'up' and 'left' move the edge outward
shrinkGridPosWrongEdge(gridPos, direction) ==
    CASE direction = "up" ->
            IF gridPos.rowSpan > 1
            THEN [gridPos EXCEPT !.row = @ - 1, !.rowSpan = @ - 1]
            ELSE gridPos
      [] direction = "down" ->
            IF gridPos.rowSpan > 1
            THEN [gridPos EXCEPT !.rowSpan = @ - 1]
            ELSE gridPos
      [] direction = "left" ->
            IF gridPos.colSpan > 1
            THEN [gridPos EXCEPT !.col = @ - 1, !.colSpan = @ - 1]
            ELSE gridPos
      [] direction = "right" ->
            IF gridPos.colSpan > 1
            THEN [gridPos EXCEPT !.colSpan = @ - 1]
            ELSE gridPos

\* the switch (direction) of shrinkCard
shrinkGridPos(gridPos, direction) ==
    CASE direction = "up" ->
            IF gridPos.rowSpan > 1
            THEN [gridPos EXCEPT !.row = @ + 1, !.rowSpan = @ - 1]
            ELSE gridPos
      [] direction = "down" ->
            IF gridPos.rowSpan > 1
            THEN [gridPos EXCEPT !.rowSpan = @ - 1]
            ELSE gridPos
      [] direction = "left" ->
            IF gridPos.colSpan > 1
            THEN [gridPos EXCEPT !.col = @ + 1, !.colSpan = @ - 1]
            ELSE gridPos
      [] direction = "right" ->
            IF gridPos.colSpan > 1
            THEN [gridPos EXCEPT !.colSpan = @ - 1]
            ELSE gridPos

\* shrinkCard(cardId, direction)
shrinkCard(cardId, direction) ==
    LET cardIndex == findIndex(settings.cards, cardId) IN
    IF cardIndex = 0
    THEN /\ Step([op |-> "shrinkCard", outcome |-> "unknown-id"])
         /\ Mutate(settings, FALSE)
    ELSE LET card == settings.cards[cardIndex]
             gridPos == card.gridPosition
         IN
         IF gridPos = NoGridPosition
         THEN /\ Step([op |-> "shrinkCard", outcome |-> "no-grid-position"])
              /\ Mutate(settings, FALSE)
         ELSE LET newGridPos == shrinkGridPos(gridPos, direction) IN
              /\ Step([op |-> "shrinkCard", outcome |-> IF newGridPos = gridPos THEN "min-span"
                                   ELSE "committed"])
              /\ Mutate([settings EXCEPT
                           !.cards[cardIndex] = withGridPos(card, newGridPos, settings)],
                        TRUE)

\* card.gridPosition?.colSpan || 1 and card.gridPosition?.rowSpan || 1
spanOr1(span) == IF span = 0 THEN 1 ELSE span

\* the candidate rectangle of snapToGrid
snapGridPos(card, x, y, s) ==
    LET cellSize == cellSizeOf(s)
        col == MathRound(x, cellSize.width)
        row == MathRound(y, cellSize.height)
        colSpan == spanOr1(card.gridPosition.colSpan)
        rowSpan == spanOr1(card.gridPosition.rowSpan)
        boundedCol == Max(0, Min(col, s.gridSize.cols - colSpan))
        boundedRow == Max(0, Min(row, s.gridSize.rows - rowSpan))
    IN [row |-> boundedRow, col |-> boundedCol,
        rowSpan |-> rowSpan, colSpan |-> colSpan]

\* snapToGrid(cardId, x, y)
snapToGrid(cardId, x, y) ==
    LET cardIndex == findIndex(settings.cards, cardId) IN
    IF cardIndex = 0
    THEN /\ Step([op |-> "snapToGrid", outcome |-> "unknown-id"])
         /\ Mutate(settings, FALSE)
    ELSE LET card == settings.cards[cardIndex]
             newGridPos == snapGridPos(card, x, y, settings)
             collision == hasCollision(settings.cards, cardIndex, newGridPos)
         IN
         /\ Step([op |-> "snapToGrid", outcome |-> IF collision THEN "collision" ELSE "committed"])
         /\ Mutate(IF ~collision
                   THEN [settings EXCEPT
                           !.cards[cardIndex] =
                               [withGridPos(card, newGridPos, settings)
                                  EXCEPT !.isSnappedToGrid = TRUE]]
                   ELSE settings,
                   TRUE)

\* ------------------------------------------------- grid operations only
ExpandStep == \E id \in IdInputs, d \in Directions : expandCard(id, d)
ShrinkStep == \E id \in IdInputs, d \in Directions : shrinkCard(id, d)
SnapStep == \E id \in IdInputs, x \in SnapXs, y \in SnapYs : snapToGrid(id, x, y)

NextGrid == ExpandStep \/ ShrinkStep \/ SnapStep

SpecGrid == InitFresh /\ [][NextGrid]_vars

\* ------------------------------------------------------ every operation
\* [...cards].sort((a, b) => a.order - b.order) for cards with distinct order
RECURSIVE sortByOrder(_)
sortByOrder(cards) ==
    IF Len(cards) = 0 THEN << >>
    ELSE LET m == CHOOSE i \in 1..Len(cards) :
                    \A j \in 1..Len(cards) :
                       \/ cards[i].order < cards[j].order
                       \/ (cards[i].order = cards[j].order /\ i <= j)
             rest == [k \in 1..(Len(cards) - 1) |->
                        IF k < m THEN cards[k] ELSE cards[k + 1]]
         IN <<cards[m]>> \o sortByOrder(rest)

\* faulty variant: the cards are moved and keep the order values they had
reorderedCardsKeepOrder(cards, draggedIndex, dropIndex) ==
    LET removed == [k \in 1..(Len(cards) - 1) |->
                      IF k < draggedIndex THEN cards[k] ELSE cards[k + 1]]
    IN [k \in 1..Len(cards) |->
          IF k < dropIndex THEN removed[k]
          ELSE IF k = dropIndex THEN cards[draggedIndex]
          ELSE removed[k - 1]]

\* the list handleDrop builds from the sorted card list: the dragged card
\* is spliced out, spliced in at dropIndex, and order becomes the index
reorderedCards(cards, draggedIndex, dropIndex) ==
    LET removed == [k \in 1..(Len(cards) - 1) |->
                      IF k < draggedIndex THEN cards[k] ELSE cards[k + 1]]
        newCards == [k \in 1..Len(cards) |->
                      IF k < dropIndex THEN removed[k]
                      ELSE IF k = dropIndex THEN cards[draggedIndex]
                      ELSE removed[k - 1]]
    IN [k \in 1..Len(cards) |-> [newCards[k] EXCEPT !.order = k - 1]]

\* [...value] needs an iterable.  The value of writable<DashboardSettings>
\* is a plain object with the keys layoutMode, gridSize, cards, ...; only
\* the card list itself could be spread
isIterable(value) == "cards" \notin DOMAIN value

\* value => { cards = [...value].sort((a, b) => a.order - b.order) }, the
\* callback Settings.svelte and +page.svelte subscribe with: the component's
\* cards afterwards and whether the callback threw
subscriptionCallback(value, cards) ==
    IF isIterable(value)
    THEN [cards |-> sortByOrder(value), threw |-> FALSE]
    ELSE [cards |-> cards, threw |-> TRUE]

\* the component's cards start as [] ($state<CardSettings[]>([])); the
\* store calls the callback on subscribe and on every set with its value
derivedCards == subscriptionCallback(settings, << >>)

UpdateStep == \E id \in IdInputs, u \in UpdateInputs : updateCard(id, u)
LayoutStep == \E mode \in LayoutModes : updateLayoutMode(mode)
ReorderStep ==
    \E dd \in DragDropPairs :
        reorderCards(reorderedCards(sortByOrder(settings.cards), dd[1], dd[2]))
ResetStep == reset

Next ==
    \/ UpdateStep
    \/ LayoutStep
    \/ ReorderStep
    \/ ResetStep
    \/ ExpandStep
    \/ ShrinkStep
    \/ SnapStep

Spec == Init /\ [][Next]_vars

\* ------------------------------------- storage that rejects writes (SpecFail)
\* the store is constructed while localStorage.setItem throws on every call
\* (quota exhausted, storage disabled); getItem still answers
InitFail ==
    \E storedData \in {NoEntry, JSONstringify(DefaultSettingsLiteral)} :
        LET c == createSettings(storedData) IN
        /\ storageFails = TRUE
        /\ threw = FALSE
        /\ component = NoComponent
        /\ settings = c.initialSettings
        /\ aliased = c.isDefaultObject
        /\ defaultSettings = DefaultSettingsLiteral
        /\ persisted = storedData
        /\ last = [op |-> "createSettings", outcome |-> "constructed"]
        /\ budget = MaxOps

SpecFail == InitFail /\ [][Next]_vars

\* ------------------------------------------------- page loads (SpecLoad)
\* loads and writing operations per run of SpecLoad
MaxLoads == 2

\* the page is loaded with any entry in localStorage
InitLoad ==
    \E storedData \in StoredEntries :
        LET c == createSettings(storedData) IN
        /\ storageFails = FALSE
        /\ threw = FALSE
        /\ component = NoComponent
        /\ settings = c.initialSettings
        /\ aliased = c.isDefaultObject
        /\ defaultSettings = DefaultSettingsLiteral
        /\ persisted = storedData
        /\ last = [op |-> "createSettings", outcome |-> "constructed"]
        /\ budget = MaxLoads

\* the page is loaded again: the module is evaluated anew (defaultSettings
\* is its literal again) and createSettings reads the entry; nothing is
\* written
ReloadStep ==
    LET c == createSettings(persisted) IN
    /\ Step([op |-> "createSettings", outcome |-> "constructed"])
    /\ settings' = c.initialSettings
    /\ aliased' = c.isDefaultObject
    /\ defaultSettings' = DefaultSettingsLiteral
    /\ persisted' = persisted
    /\ threw' = FALSE
    /\ storageFails' = storageFails

NextLoad ==
    \/ ReloadStep
    \/ UpdateStep
    \/ LayoutStep
    \/ ReorderStep

SpecLoad == InitLoad /\ [][NextLoad]_vars

\* ------------------------------- drag and resize gestures (SpecGesture)
\* pointer events per run of SpecGesture
MaxEvents == 4

MinCardWidth == 200
MinCardHeight == 150
FallbackSnapThreshold == 20

Abs(n) == IF n < 0 THEN -n ELSE n

\* safeCard(): the card prop, which is the store's card of that id (every
\* card of the store has position, dimensions and size, so the fallbacks
\* of safeCard never apply)
safeCard(s, comp) == s.cards[findIndex(s.cards, comp.cardId)]

\* the listeners a card registers on document
DragMove == [type |-> "mousemove", listener |-> "handleMouseMove"]
DragUp == [type |-> "mouseup", listener |-> "handleMouseUp"]
ResizeMove == [type |-> "mousemove", listener |-> "handleResizeMouseMove"]
ResizeUp == [type |-> "mouseup", listener |-> "handleResizeMouseUp"]

\* document.addEventListener: a listener already registered for the type
\* is not registered again
addEventListener(listeners, l) ==
    IF \E i \in 1..Len(listeners) : listeners[i] = l
    THEN listeners
    ELSE Append(listeners, l)

\* document.removeEventListener
removeEventListener(listeners, l) ==
    SelectSeq(listeners, LAMBDA x : x # l)

\* handleMouseDown(e), for a target outside the resize handle
handleMouseDown(comp, s, e) ==
    [comp EXCEPT
       !.isDragging = TRUE,
       !.dragStartPos = [x |-> e.clientX, y |-> e.clientY],
       !.dragStartCardPos = [x |-> safeCard(s, comp).position.x,
                             y |-> safeCard(s, comp).position.y],
       !.listeners = addEventListener(addEventListener(@, DragMove), DragUp)]

\* faulty variant: the mousedown on the handle also reaches handleMouseDown
\* of the card around it
handleResizeMouseDownBubbling(comp, s, e) ==
    handleMouseDown(
        [comp EXCEPT
           !.isResizing = TRUE,
           !.resizeStartPos = [x |-> e.clientX, y |-> e.clientY],
           !.resizeStartDimensions =
                [width |-> safeCard(s, comp).dimensions.width,
                 height |-> safeCard(s, comp).dimensions.height],
           !.listeners = addEventListener(addEventListener(@, ResizeMove),
                                          ResizeUp)],
        s, e)

\* handleResizeMouseDown(e): stopPropagation keeps handleMouseDown out
handleResizeMouseDown(comp, s, e) ==
    [comp EXCEPT
       !.isResizing = TRUE,
       !.resizeStartPos = [x |-> e.clientX, y |-> e.clientY],
       !.resizeStartDimensions =
            [width |-> safeCard(s, comp).dimensions.width,
             height |-> safeCard(s, comp).dimensions.height],
       !.listeners = addEventListener(addEventListener(@, ResizeMove), ResizeUp)]

\* a handleMouseUp that leaves its own mouseup listener registered
handleMouseUpKeepsUp(comp) ==
    [comp EXCEPT
       !.isDragging = FALSE,
       !.listeners = removeEventListener(@, DragMove)]

\* a handleMouseUp that removes its listeners and leaves isDragging set
handleMouseUpKeepsDragging(comp) ==
    [comp EXCEPT
       !.listeners = removeEventListener(removeEventListener(@, DragMove), DragUp)]

\* handleMouseUp()
handleMouseUp(comp) ==
    [comp EXCEPT
       !.isDragging = FALSE,
       !.listeners = removeEventListener(removeEventListener(@, DragMove), DragUp)]

\* handleResizeMouseUp()
handleResizeMouseUp(comp) ==
    [comp EXCEPT
       !.isResizing = FALSE,
       !.listeners = removeEventListener(removeEventListener(@, ResizeMove),
                                         ResizeUp)]

\* the cell of the snapping grid of the handlers: viewportWidth / cols and
\* (viewportHeight - headerHeight) / rows.  The windows of the model make
\* both divisions exact.
gridCellWidth(s, comp) == comp.window.innerWidth \div s.gridSize.cols
gridCellHeight(s, comp) ==
    (comp.window.innerHeight - headerHeight) \div s.gridSize.rows

\* layoutMode === 'grid' && settings.magneticSnapping
snapping(s, comp) == comp.layoutMode = "grid" /\ s.magneticSnapping

\* settings.snapThreshold || 20
snapThresholdOf(s) ==
    IF s.snapThreshold = 0 THEN FallbackSnapThreshold ELSE s.snapThreshold

\* the snapping block is entered and Math.abs(v - closest) < snapThreshold
withinSnap(v, closest, s, comp) ==
    snapping(s, comp) /\ Abs(v - closest) < snapThresholdOf(s)

\* faulty variant: the delta is added to the card's current position
dragPositionFromCurrent(s, comp, e) ==
    LET deltaX == e.clientX - comp.dragStartPos.x
        deltaY == e.clientY - comp.dragStartPos.y
        viewportWidth == comp.window.innerWidth
        viewportHeight == comp.window.innerHeight
        scrollTop == comp.window.scrollY
        cardWidth == safeCard(s, comp).dimensions.width
        cardHeight == safeCard(s, comp).dimensions.height
        newX == Max(0, Min(viewportWidth - cardWidth,
                           safeCard(s, comp).position.x + deltaX))
        newY == Max(headerHeight + scrollTop,
                    Min(viewportHeight + scrollTop - cardHeight,
                        safeCard(s, comp).position.y + deltaY))
        relativeY == newY - headerHeight - scrollTop
        closestGridX ==
            MathRound(newX, gridCellWidth(s, comp)) * gridCellWidth(s, comp)
        closestGridY ==
            MathRound(relativeY, gridCellHeight(s, comp)) * gridCellHeight(s, comp)
                + headerHeight + scrollTop
    IN [x |-> IF withinSnap(newX, closestGridX, s, comp)
              THEN closestGridX ELSE newX,
        y |-> IF withinSnap(newY, closestGridY, s, comp)
              THEN closestGridY ELSE newY]

\* faulty variant: one test for both axes, the card snaps only when both
\* coordinates are within the threshold
dragPositionCoupled(s, comp, e) ==
    LET deltaX == e.clientX - comp.dragStartPos.x
        deltaY == e.clientY - comp.dragStartPos.y
        viewportWidth == comp.window.innerWidth
        viewportHeight == comp.window.innerHeight
        scrollTop == comp.window.scrollY
        cardWidth == safeCard(s, comp).dimensions.width
        cardHeight == safeCard(s, comp).dimensions.height
        newX == Max(0, Min(viewportWidth - cardWidth,
                           comp.dragStartCardPos.x + deltaX))
        newY == Max(headerHeight + scrollTop,
                    Min(viewportHeight + scrollTop - cardHeight,
                        comp.dragStartCardPos.y + deltaY))
        relativeY == newY - headerHeight - scrollTop
        closestGridX ==
            MathRound(newX, gridCellWidth(s, comp)) * gridCellWidth(s, comp)
        closestGridY ==
            MathRound(relativeY, gridCellHeight(s, comp)) * gridCellHeight(s, comp)
                + headerHeight + scrollTop
        both == /\ withinSnap(newX, closestGridX, s, comp)
                /\ withinSnap(newY, closestGridY, s, comp)
    IN [x |-> IF both THEN closestGridX ELSE newX,
        y |-> IF both THEN closestGridY ELSE newY]

\* the position handleMouseMove hands to updateCard
dragPosition(s, comp, e) ==
    LET deltaX == e.clientX - comp.dragStartPos.x
        deltaY == e.clientY - comp.dragStartPos.y
        viewportWidth == comp.window.innerWidth
        viewportHeight == comp.window.innerHeight
        scrollTop == comp.window.scrollY
        cardWidth == safeCard(s, comp).dimensions.width
        cardHeight == safeCard(s, comp).dimensions.height
        newX == Max(0, Min(viewportWidth - cardWidth,
                           comp.dragStartCardPos.x + deltaX))
        newY == Max(headerHeight + scrollTop,
                    Min(viewportHeight + scrollTop - cardHeight,
                        comp.dragStartCardPos.y + deltaY))
        relativeY == newY - headerHeight - scrollTop
        closestGridX ==
            MathRound(newX, gridCellWidth(s, comp)) * gridCellWidth(s, comp)
        closestGridY ==
            MathRound(relativeY, gridCellHeight(s, comp)) * gridCellHeight(s, comp)
                + headerHeight + scrollTop
    IN [x |-> IF withinSnap(newX, closestGridX, s, comp)
              THEN closestGridX ELSE newX,
        y |-> IF withinSnap(newY, closestGridY, s, comp)
              THEN closestGridY ELSE newY]

\* faulty variant: the snapping grid is the stored gridCellSize instead of
\* the cell derived from the window
resizeDimensionsStoredCell(s, comp, e) ==
    LET deltaX == e.clientX - comp.resizeStartPos.x
        deltaY == e.clientY - comp.resizeStartPos.y
        maxWidth == comp.window.innerWidth - safeCard(s, comp).position.x
        maxHeight == comp.window.innerHeight - safeCard(s, comp).position.y
        newWidth == Max(MinCardWidth,
                        Min(maxWidth, comp.resizeStartDimensions.width + deltaX))
        newHeight == Max(MinCardHeight,
                         Min(maxHeight, comp.resizeStartDimensions.height + deltaY))
        closestGridWidth ==
            MathRound(newWidth, s.gridCellSize.width) * s.gridCellSize.width
        closestGridHeight ==
            MathRound(newHeight, s.gridCellSize.height) * s.gridCellSize.height
    IN [width |-> IF withinSnap(newWidth, closestGridWidth, s, comp)
                  THEN Max(s.gridCellSize.width, closestGridWidth)
                  ELSE newWidth,
        height |-> IF withinSnap(newHeight, closestGridHeight, s, comp)
                   THEN Max(s.gridCellSize.height, closestGridHeight)
                   ELSE newHeight]

\* the dimensions handleResizeMouseMove hands to updateCard
resizeDimensions(s, comp, e) ==
    LET deltaX == e.clientX - comp.resizeStartPos.x
        deltaY == e.clientY - comp.resizeStartPos.y
        maxWidth == comp.window.innerWidth - safeCard(s, comp).position.x
        maxHeight == comp.window.innerHeight - safeCard(s, comp).position.y
        newWidth == Max(MinCardWidth,
                        Min(maxWidth, comp.resizeStartDimensions.width + deltaX))
        newHeight == Max(MinCardHeight,
                         Min(maxHeight, comp.resizeStartDimensions.height + deltaY))
        closestGridWidth ==
            MathRound(newWidth, gridCellWidth(s, comp)) * gridCellWidth(s, comp)
        closestGridHeight ==
            MathRound(newHeight, gridCellHeight(s, comp)) * gridCellHeight(s, comp)
    IN [width |-> IF withinSnap(newWidth, closestGridWidth, s, comp)
                  THEN Max(gridCellWidth(s, comp), closestGridWidth)
                  ELSE newWidth,
        height |-> IF withinSnap(newHeight, closestGridHeight, s, comp)
                   THEN Max(gridCellHeight(s, comp), closestGridHeight)
                   ELSE newHeight]

\* the aggregate after the update callback of updateCard(id, updates)
afterUpdateCard(s, id, updates) ==
    LET cardIndex == findIndex(s.cards, id) IN
    IF cardIndex # 0
    THEN [s EXCEPT !.cards[cardIndex] = Merge(s.cards[cardIndex], updates)]
    ELSE s

\* absolute rectangles of two cards share a point of their interiors
rectsOverlap(a, b) ==
    /\ a.position.x < b.position.x + b.dimensions.width
    /\ b.position.x < a.position.x + a.dimensions.width
    /\ a.position.y < b.position.y + b.dimensions.height
    /\ b.position.y < a.position.y + a.dimensions.height

\* a handleMouseMove that drops a move onto another enabled card
handleMouseMoveUnlessOccupied(s, comp, e) ==
    LET moved == afterUpdateCard(s, comp.cardId,
                                 [position |-> dragPosition(s, comp, e)])
    IN IF ~comp.isDragging THEN s
       ELSE IF \E i \in 1..Len(s.cards) :
                  /\ s.cards[i].id # comp.cardId
                  /\ s.cards[i].enabled
                  /\ rectsOverlap(safeCard(moved, comp), s.cards[i])
            THEN s
            ELSE moved

\* handleMouseMove(e): the aggregate it leaves
handleMouseMove(s, comp, e) ==
    IF ~comp.isDragging THEN s
    ELSE afterUpdateCard(s, comp.cardId, [position |-> dragPosition(s, comp, e)])

\* handleResizeMouseMove(e): the aggregate it leaves
handleResizeMouseMove(s, comp, e) ==
    IF ~comp.isResizing THEN s
    ELSE afterUpdateCard(s, comp.cardId,
                         [dimensions |-> resizeDimensions(s, comp, e)])

\* bookkeeping of one pointer event
GestureStep(record, comp) ==
    /\ budget > 0
    /\ budget' = budget - 1
    /\ last' = record
    /\ component' = comp

\* listeners of one event type, in the order of their registration
listenersOf(comp, type) ==
    SelectSeq(comp.listeners, LAMBDA l : l.type = type)

\* one move listener called with the event
callMoveListener(l, s, comp, e) ==
    IF l = DragMove THEN handleMouseMove(s, comp, e)
    ELSE handleResizeMouseMove(s, comp, e)

\* one up listener called
callUpListener(l, comp) ==
    IF l = DragUp THEN handleMouseUp(comp) ELSE handleResizeMouseUp(comp)

\* which gestures a dispatched event reached
reached(called) ==
    IF Len(called) = 0 THEN "none"
    ELSE IF Len(called) = 2 THEN "both"
    ELSE IF called[1].listener \in {"handleMouseMove", "handleMouseUp"}
         THEN "drag" ELSE "resize"

\* mousedown on the card outside its resize handle
MouseDownStep ==
    \E e \in {[clientX |-> 100, clientY |-> 150]} :
        /\ GestureStep([op |-> "mousedown", outcome |-> "drag"],
                       handleMouseDown(component, settings, e))
        /\ Mutate(settings, FALSE)

\* mousedown on the resize handle
ResizeMouseDownStep ==
    \E e \in {[clientX |-> 100, clientY |-> 150]} :
        /\ GestureStep([op |-> "mousedown", outcome |-> "resize"],
                       handleResizeMouseDown(component, settings, e))
        /\ Mutate(settings, FALSE)

\* pointer positions of mousemove events: far up-left, a few pixels from
\* the press, some way right and a little down, far down-right
MovePoints ==
    { [clientX |-> -1900, clientY |-> -1850],
      [clientX |-> 105, clientY |-> 156],
      [clientX |-> 250, clientY |-> 156],
      [clientX |-> 2100, clientY |-> 2150] }

\* a mousemove event on document: every registered mousemove listener is
\* called, in the order of registration; each listener of an active
\* gesture calls updateCard
MouseMove(e) ==
    LET called == listenersOf(component, "mousemove")
        s1 == IF Len(called) >= 1
              THEN callMoveListener(called[1], settings, component, e)
              ELSE settings
        s2 == IF Len(called) >= 2
              THEN callMoveListener(called[2], s1, component, e)
              ELSE s1
    IN /\ GestureStep([op |-> "mousemove", outcome |-> reached(called)],
                      component)
       /\ Mutate(s2, Len(called) >= 1)

MouseMoveStep == \E e \in MovePoints : MouseMove(e)

\* a mouseup event on document: every registered mouseup listener is called
MouseUpStep ==
    LET called == listenersOf(component, "mouseup")
        c1 == IF Len(called) >= 1 THEN callUpListener(called[1], component)
              ELSE component
        c2 == IF Len(called) >= 2 THEN callUpListener(called[2], c1) ELSE c1
    IN /\ GestureStep([op |-> "mouseup", outcome |-> reached(called)], c2)
       /\ Mutate(settings, FALSE)

\* windows: a desktop window whose cells are 200 x 150, one 1170 wide
\* (cells 195 wide), a phone-sized one, and the first one scrolled down
Windows ==
    { [innerWidth |-> 1200, innerHeight |-> 688, scrollY |-> 0],
      [innerWidth |-> 1170, innerHeight |-> 688, scrollY |-> 0],
      [innerWidth |-> 360, innerHeight |-> 688, scrollY |-> 0],
      [innerWidth |-> 1200, innerHeight |-> 688, scrollY |-> 100] }

\* the cards whose component is followed
GestureCardIds == {"system-info", "file-browser"}

\* a card is mounted on a fresh store or on one whose entry has magnetic
\* snapping switched off, with either value of the layoutMode prop
InitGesture ==
    \E storedData \in {NoEntry,
                       JSONstringify([DefaultSettingsLiteral
                                        EXCEPT !.magneticSnapping = FALSE])},
       cardId \in GestureCardIds, layoutMode \in LayoutModes, window \in Windows :
        LET c == createSettings(storedData) IN
        /\ storageFails = FALSE
        /\ threw = FALSE
        /\ component = mounted(cardId, layoutMode, window)
        /\ settings = c.initialSettings
        /\ aliased = c.isDefaultObject
        /\ defaultSettings = DefaultSettingsLiteral
        /\ persisted = storedData
        /\ last = [op |-> "createSettings", outcome |-> "constructed"]
        /\ budget = MaxEvents

NextGesture ==
    \/ MouseDownStep
    \/ ResizeMouseDownStep
    \/ MouseMoveStep
    \/ MouseUpStep

SpecGesture == InitGesture /\ [][NextGesture]_vars

\* --------------------------------- the collision test (SpecCollide)
\* largest span of the rectangles the collision test is tried on
MaxSpan == 2

\* the rectangles of spans 1..MaxSpan that lie inside the grid
GridRects(gridSize) ==
    { g \in [row : 0..(gridSize.rows - 1), col : 0..(gridSize.cols - 1),
             rowSpan : 1..MaxSpan, colSpan : 1..MaxSpan] :
        /\ g.row + g.rowSpan <= gridSize.rows
        /\ g.col + g.colSpan <= gridSize.cols }

\* a fresh store after updateCard gave system-info any rectangle and
\* services-list any rectangle or none, enabled or not
InitCollide ==
    \E a \in GridRects(DefaultSettingsLiteral.gridSize),
       b \in GridRects(DefaultSettingsLiteral.gridSize) \cup {NoGridPosition},
       enabled \in BOOLEAN :
        LET s == afterUpdateCard(
                     afterUpdateCard(DefaultSettingsLiteral, "system-info",
                                     [gridPosition |-> a]),
                     "services-list",
                     [gridPosition |-> b, enabled |-> enabled])
        IN /\ storageFails = FALSE
           /\ threw = FALSE
           /\ component = NoComponent
           /\ settings = s
           /\ aliased = TRUE
           /\ defaultSettings = s
           /\ persisted = JSONstringify(s)
           /\ last = [op |-> "updateCard", outcome |-> "committed"]
           /\ budget = 1

CollideExpandStep == \E d \in Directions : expandCard("system-info", d)
CollideSnapStep ==
    \E x \in SnapXs, y \in SnapYs : snapToGrid("system-info", x, y)

NextCollide ==
    \/ CollideExpandStep
    \/ CollideSnapStep

SpecCollide == InitCollide /\ [][NextCollide]_vars

\* ------------------------- reordering in the settings dialog (SpecDrop)
\* drag events per run of SpecDrop
MaxDragEvents == 4

\* draggedIndex = null (the rows of the model are numbered from 1)
NoIndex == 0

\* the state of Settings.svelte: draggedIndex and the list its rows show.
\* The rows exist once the subscription has put the store's cards, sorted
\* by order, into cards; the handlers are followed on that list
settingsDialog(s) ==
    [draggedIndex |-> NoIndex, cards |-> sortByOrder(s.cards)]

\* the rows of the dialog
Rows == 1..Len(component.cards)

\* handleDragStart(event, index)
handleDragStart(index) ==
    /\ GestureStep([op |-> "dragstart", outcome |-> "dragging"],
                   [component EXCEPT !.draggedIndex = index])
    /\ Mutate(settings, FALSE)

\* handleDragEnd()
handleDragEnd ==
    /\ GestureStep([op |-> "dragend", outcome |-> "idle"],
                   [component EXCEPT !.draggedIndex = NoIndex])
    /\ Mutate(settings, FALSE)

\* handleDrop(event, dropIndex): returns at once without a dragged row or
\* on the dragged row itself; otherwise hands the rebuilt list to
\* reorderCards, whose set shows the new list in the rows
handleDrop(dropIndex) ==
    IF component.draggedIndex = NoIndex \/ component.draggedIndex = dropIndex
    THEN /\ GestureStep([op |-> "drop", outcome |-> "ignored"], component)
         /\ Mutate(settings, FALSE)
    ELSE LET newOrder == reorderedCards(component.cards,
                                        component.draggedIndex, dropIndex)
         IN /\ GestureStep([op |-> "drop", outcome |-> "reorderCards"],
                           [draggedIndex |-> NoIndex,
                            cards |-> sortByOrder(newOrder)])
            /\ Mutate([settings EXCEPT !.cards = newOrder], TRUE)

DragStartStep == \E index \in Rows : handleDragStart(index)
DragEndStep == handleDragEnd
DropStep == \E dropIndex \in Rows : handleDrop(dropIndex)

\* the dialog is opened on a fresh store or on one of the stored entries
InitDrop ==
    \E storedData \in InitialEntries :
        LET c == createSettings(storedData) IN
        /\ storageFails = FALSE
        /\ threw = FALSE
        /\ component = settingsDialog(c.initialSettings)
        /\ settings = c.initialSettings
        /\ aliased = c.isDefaultObject
        /\ defaultSettings = DefaultSettingsLiteral
        /\ persisted = storedData
        /\ last = [op |-> "createSettings", outcome |-> "constructed"]
        /\ budget = MaxDragEvents

NextDrop ==
    \/ DragStartStep
    \/ DragEndStep
    \/ DropStep

SpecDrop == InitDrop /\ [][NextDrop]_vars

\* ------------------- snapping a card to its own position (SpecSnapBack)
\* store operations per run of SpecSnapBack
MaxSnapBack == 2

\* snapToGrid(id, x, y) called with the card's own position
SnapOwnStep ==
    \E id \in CardIds :
        LET card == settings.cards[findIndex(settings.cards, id)]
        IN snapToGrid(id, card.position.x, card.position.y)

InitSnapBack ==
    /\ storageFails = FALSE
    /\ threw = FALSE
    /\ component = NoComponent
    /\ settings = createSettings(NoEntry).initialSettings
    /\ aliased = createSettings(NoEntry).isDefaultObject
    /\ defaultSettings = DefaultSettingsLiteral
    /\ persisted = NoEntry
    /\ last = [op |-> "createSettings", outcome |-> "constructed"]
    /\ budget = MaxSnapBack

NextSnapBack ==
    \/ ExpandStep
    \/ ShrinkStep
    \/ SnapStep
    \/ SnapOwnStep

SpecSnapBack == InitSnapBack /\ [][NextSnapBack]_vars

\* ------------------------- what one operation leaves alone (SpecFrame)
\* store operations per run of SpecFrame
MaxFrameOps == 1

\* entries an earlier session may have left: those of InitialEntries, one
\* written in freeform mode with system-info shrunk to one cell, one with
\* network-status grown downward and snapping switched off
FrameEntries ==
    InitialEntries \cup
    { JSONstringify([DefaultSettingsLiteral EXCEPT
          !.layoutMode = "freeform",
          !.cards[1].gridPosition =
              [row |-> 0, col |-> 0, rowSpan |-> 1, colSpan |-> 1]]),
      JSONstringify([DefaultSettingsLiteral EXCEPT
          !.magneticSnapping = FALSE,
          !.cards[3].gridPosition =
              [row |-> 2, col |-> 0, rowSpan |-> 2, colSpan |-> 2]]) }

InitFrame ==
    \E storedData \in FrameEntries :
        LET c == createSettings(storedData) IN
        /\ storageFails = FALSE
        /\ threw = FALSE
        /\ component = NoComponent
        /\ settings = c.initialSettings
        /\ aliased = c.isDefaultObject
        /\ defaultSettings = DefaultSettingsLiteral
        /\ persisted = storedData
        /\ last = [op |-> "createSettings", outcome |-> "constructed"]
        /\ budget = MaxFrameOps

NextFrame ==
    \/ UpdateStep
    \/ LayoutStep
    \/ ExpandStep
    \/ ShrinkStep
    \/ SnapStep

SpecFrame == InitFrame /\ [][NextFrame]_vars

\* ------------------------ the expand and shrink arrows (SpecArrows)
\* clicks on arrows per run of SpecArrows
MaxClicks == 3

\* const gridSize = { cols: 6, rows: 4 } of canExpand
ArrowGridSize == [cols |-> 6, rows |-> 4]

\* canExpand(direction) of the card's component
canExpand(s, comp, direction) ==
    IF comp.layoutMode # "grid" \/ safeCard(s, comp).gridPosition = NoGridPosition
    THEN FALSE
    ELSE LET gridPos == safeCard(s, comp).gridPosition IN
         CASE direction = "up" -> gridPos.row > 0
           [] direction = "down" ->
                 gridPos.row + gridPos.rowSpan < ArrowGridSize.rows
           [] direction = "left" -> gridPos.col > 0
           [] direction = "right" ->
                 gridPos.col + gridPos.colSpan < ArrowGridSize.cols

\* canShrink(direction) of the card's component
canShrink(s, comp, direction) ==
    IF comp.layoutMode # "grid" \/ safeCard(s, comp).gridPosition = NoGridPosition
    THEN FALSE
    ELSE LET gridPos == safeCard(s, comp).gridPosition IN
         IF direction \in {"up", "down"}
         THEN gridPos.rowSpan > 1
         ELSE gridPos.colSpan > 1

\* a click on an expand arrow, which is rendered while canExpand(direction)
\* holds: the component's expandCard(direction) calls the store in grid mode
ExpandClickStep ==
    \E d \in Directions :
        /\ canExpand(settings, component, d)
        /\ component.layoutMode = "grid"
        /\ expandCard(component.cardId, d)

\* a click on a shrink arrow, rendered while canShrink(direction) holds
ShrinkClickStep ==
    \E d \in Directions :
        /\ canShrink(settings, component, d)
        /\ component.layoutMode = "grid"
        /\ shrinkCard(component.cardId, d)

\* entries for the arrows: none, and one whose gridSize is 8 x 6
ArrowEntries ==
    { NoEntry,
      JSONstringify([DefaultSettingsLiteral EXCEPT
                        !.gridSize = [cols |-> 8, rows |-> 6]]) }

\* a card is mounted with either value of the layoutMode prop
InitArrows ==
    \E storedData \in ArrowEntries, cardId \in CardIds, layoutMode \in LayoutModes :
        LET c == createSettings(storedData) IN
        /\ storageFails = FALSE
        /\ threw = FALSE
        /\ component = mounted(cardId, layoutMode,
                               [innerWidth |-> 1200, innerHeight |-> 688,
                                scrollY |-> 0])
        /\ settings = c.initialSettings
        /\ aliased = c.isDefaultObject
        /\ defaultSettings = DefaultSettingsLiteral
        /\ persisted = storedData
        /\ last = [op |-> "createSettings", outcome |-> "constructed"]
        /\ budget = MaxClicks

NextArrows ==
    \/ ExpandClickStep
    \/ ShrinkClickStep

SpecArrows == InitArrows /\ [][NextArrows]_vars





\* =================================================================
\* Properties
\* =================================================================
GridOps == {"expandCard", "shrinkCard", "snapToGrid"}
IndexOf(s) == 1..Len(s.cards)
HasGrid(card) == card.gridPosition # NoGridPosition

\* the grid cells a rectangle covers
Cells(g) ==
    { <<r, c>> : r \in g.row..(g.row + g.rowSpan - 1),
                 c \in g.col..(g.col + g.colSpan - 1) }

\* two enabled cards with a grid position share a cell
EnabledOverlap(s) ==
    \E i \in IndexOf(s), j \in IndexOf(s) :
        /\ i < j
        /\ s.cards[i].enabled /\ s.cards[j].enabled
        /\ HasGrid(s.cards[i]) /\ HasGrid(s.cards[j])
        /\ Cells(s.cards[i].gridPosition) \cap Cells(s.cards[j].gridPosition) # {}

\* the candidate rectangle shares a cell with another enabled card
CandidateHits(s, cardIndex, g) ==
    \E j \in IndexOf(s) :
        /\ j # cardIndex
        /\ s.cards[j].enabled
        /\ HasGrid(s.cards[j])
        /\ Cells(g) \cap Cells(s.cards[j].gridPosition) # {}

\* position and dimensions of a card are the image of its grid rectangle
GeometryOf(card, s) ==
    /\ card.position = [x |-> card.gridPosition.col * s.gridCellSize.width,
                        y |-> 88 + card.gridPosition.row * s.gridCellSize.height]
    /\ card.dimensions = [width |-> card.gridPosition.colSpan * s.gridCellSize.width,
                          height |-> card.gridPosition.rowSpan * s.gridCellSize.height]

\* C1: starting from the default settings, after any sequence of expandCard,
\* shrinkCard and snapToGrid calls no two enabled cards' grid rectangles
\* overlap.
C1_NoOverlapAfterGridOps == ~EnabledOverlap(settings)

\* a snap moved a card to another cell and the packing is still collision-free
C1_Witness ==
    /\ last.op = "snapToGrid" /\ last.outcome = "committed"
    /\ \E i \in IndexOf(settings) :
          settings.cards[i].gridPosition # defaultCards[i].gridPosition
    /\ ~EnabledOverlap(settings)

\* C2: every store operation leaves the aggregate, in grid mode, without two
\* overlapping enabled cards (also across disable / expand / re-enable).
C2_NoOverlapInGridMode ==
    settings.layoutMode = "grid" => ~EnabledOverlap(settings)

\* C3: reset() leaves the aggregate equal to the hard-coded default
\* DashboardSettings.
C3_ResetRestoresDefaults ==
    last.op = "reset" => settings = DefaultSettingsLiteral

\* C4: an operation that no-ops (collision, grid boundary, span 1, unknown
\* card id) leaves the persisted entry untouched.
C4_NoOpDoesNotWrite ==
    [][ last'.outcome \in {"collision", "boundary", "min-span", "unknown-id"}
          => persisted' = persisted ]_vars

\* C5: when a mutation that changes the aggregate returns, the persisted
\* entry is the serialization of the current aggregate, and once the two
\* agree no operation makes them differ.
C5_PersistedIsCurrent ==
    [][ (settings' # settings \/ persisted = JSONstringify(settings))
          => persisted' = JSONstringify(settings') ]_vars

\* a committed change was persisted, and the entry is not the initial one
C5_Witness ==
    /\ last.outcome = "committed"
    /\ settings # DefaultSettingsLiteral
    /\ persisted = JSONstringify(settings)

\* C6: when the candidate rectangle of expandCard or snapToGrid shares a
\* cell with another enabled card that has a grid position, the whole
\* aggregate is unchanged.
C6_CollisionRejectedWhole ==
    [][ \/ settings' = settings
        \/ last'.op \notin {"expandCard", "snapToGrid"}
        \/ \A id \in CardIds :
             LET cardIndex == findIndex(settings.cards, id)
                 card == settings.cards[cardIndex]
             IN /\ \A d \in Directions :
                     ~ ( /\ last'.op = "expandCard"
                         /\ CandidateHits(settings, cardIndex,
                               expandGridPos(card.gridPosition, d, settings.gridSize))
                         /\ expandCard(id, d) )
                /\ \A x \in SnapXs, y \in SnapYs :
                     ~ ( /\ last'.op = "snapToGrid"
                         /\ CandidateHits(settings, cardIndex,
                               snapGridPos(card, x, y, settings))
                         /\ snapToGrid(id, x, y) ) ]_vars

\* the example of the specification: expandCard(system-info, right) was
\* rejected against services-list and system-info kept its rectangle
C6_Witness ==
    /\ last.op = "expandCard" /\ last.outcome = "collision"
    /\ \E i \in IndexOf(settings), j \in IndexOf(settings) :
          /\ settings.cards[i].id = "system-info"
          /\ settings.cards[i].gridPosition =
                [row |-> 0, col |-> 0, rowSpan |-> 2, colSpan |-> 2]
          /\ settings.cards[j].id = "services-list"
          /\ settings.cards[j].enabled
          /\ settings.cards[j].gridPosition =
                [row |-> 0, col |-> 2, rowSpan |-> 2, colSpan |-> 3]

\* the grid boundary in the given direction is already reached
AtBoundary(g, d, gridSize) ==
    \/ d = "up" /\ g.row = 0
    \/ d = "down" /\ g.row + g.rowSpan = gridSize.rows
    \/ d = "left" /\ g.col = 0
    \/ d = "right" /\ g.col + g.colSpan = gridSize.cols

\* C7: expandCard in a direction whose grid boundary is already reached
\* leaves the whole aggregate unchanged, absolute position and dimensions
\* included.
C7_ExpandAtBoundaryIsNoOp ==
    [][ \/ settings' = settings
        \/ last'.op # "expandCard"
        \/ \A id \in CardIds, d \in Directions :
             LET card == settings.cards[findIndex(settings.cards, id)] IN
             ~ ( /\ AtBoundary(card.gridPosition, d, settings.gridSize)
                 /\ expandCard(id, d) ) ]_vars

\* C8: after every grid-position change committed by expandCard, shrinkCard
\* or snapToGrid the card's position is (col*cellWidth, 88 + row*cellHeight)
\* and its dimensions are (colSpan*cellWidth, rowSpan*cellHeight).
C8_GeometryAfterGridChange ==
    [][ last'.op \in GridOps =>
          \A i \in IndexOf(settings) :
             settings'.cards[i].gridPosition # settings.cards[i].gridPosition
                => GeometryOf(settings'.cards[i], settings') ]_vars

\* a shrink was committed and the shrunk card sits at its grid image
C8_Witness ==
    /\ last.op = "shrinkCard" /\ last.outcome = "committed"
    /\ \E i \in IndexOf(settings) :
          /\ settings.cards[i].gridPosition.row > 0
          /\ settings.cards[i].gridPosition.col > 0
          /\ GeometryOf(settings.cards[i], settings)

\* C9: in every reachable state with layoutMode grid each card that has a
\* gridPosition has position and dimensions equal to the image of that
\* gridPosition.
C9_GeometryNeverStale ==
    settings.layoutMode = "grid" =>
        \A i \in IndexOf(settings) :
            HasGrid(settings.cards[i]) => GeometryOf(settings.cards[i], settings)

\* C10: after any sequence of expandCard / shrinkCard / snapToGrid calls
\* every card's rowSpan and colSpan are at least 1.
C10_MinimumSpan ==
    \A i \in IndexOf(settings) :
        /\ settings.cards[i].gridPosition.rowSpan >= 1
        /\ settings.cards[i].gridPosition.colSpan >= 1

\* shrinkCard was called on a card whose span in that direction is 1
C10_Witness ==
    /\ last.op = "shrinkCard" /\ last.outcome = "min-span"
    /\ \E i \in IndexOf(settings) :
          \/ settings.cards[i].gridPosition.rowSpan = 1
          \/ settings.cards[i].gridPosition.colSpan = 1

\* ---------------------------------------------------------------------
\* a DashboardSettings of the declared shape
ValidSettings(s) ==
    /\ s.layoutMode \in LayoutModes
    /\ s.snapThreshold > 0
    /\ \A i \in 1..Len(s.cards) : s.cards[i].size # ""

\* C11 (as claimed): whenever the entry is the text of the current valid
\* aggregate, loading the page yields that aggregate again, field for
\* field and with the cards in the same sequence.
C11_RoundTrip ==
    [][(/\ last'.op = "createSettings"
        /\ ValidSettings(settings)
        /\ persisted = JSONstringify(settings))
       => settings' = settings]_vars

\* the aggregate is what the load of some legacy list yields
FromLegacy(s) ==
    \E e \in LegacyEntries : s = createSettings(e).initialSettings

\* C12: when the aggregate is the load of a bare legacy card list and the
\* entry is that aggregate re-persisted, loading again yields the same
\* aggregate: no field is lost or changed by the second round trip.
C12_LegacyUpgradeIdempotent ==
    [][(/\ last'.op = "createSettings"
        /\ persisted = JSONstringify(settings)
        /\ FromLegacy(settings))
       => settings' = settings]_vars

\* a legacy list was loaded, re-persisted by an operation that changed
\* nothing, and loaded again
C12_Witness ==
    /\ last.op = "createSettings"
    /\ persisted = JSONstringify(settings)
    /\ FromLegacy(settings)
    /\ settings # DefaultSettingsLiteral

\* the layout configuration: every field of the aggregate but the cards
LayoutFields == (DOMAIN DefaultSettingsLiteral) \ {"cards"}

\* C13: right after a legacy bare list of cards was loaded, each card has
\* every field its stored card holds with the stored value and every
\* other field (gridPosition always) with the value of the default card of
\* the same id, and the layout configuration is the default one.
C13_LegacyBackfill ==
    (last.op = "createSettings" /\ persisted \in LegacyEntries) =>
        /\ \A f \in LayoutFields : settings[f] = DefaultSettingsLiteral[f]
        /\ Len(settings.cards) = Len(defaultCards)
        /\ \A i \in 1..Len(defaultCards) :
              LET k == findStored(persisted.elements, defaultCards[i].id) IN
              \A f \in DOMAIN defaultCards[i] :
                  settings.cards[i][f] =
                      IF k # 0 /\ f \in DOMAIN persisted.elements[k]
                      THEN persisted.elements[k][f]
                      ELSE defaultCards[i][f]

\* the list [{"id":"system-info","enabled":false}] was loaded
C13_Witness ==
    /\ last.op = "createSettings"
    /\ persisted = [kind |-> "array",
                    elements |-> << [id |-> "system-info", enabled |-> FALSE] >>]
    /\ settings.cards[1].enabled = FALSE
    /\ settings.cards[1].position = defaultCards[1].position
    /\ settings.cards[1].gridPosition = defaultCards[1].gridPosition

\* C14 (as claimed): right after the store was constructed from an absent,
\* unparseable or wrong-shaped entry the aggregate is the default
\* DashboardSettings.
C14_MalformedFallsBack ==
    (last.op = "createSettings" /\ persisted \in MalformedEntries \cup {NoEntry})
        => settings = DefaultSettingsLiteral

\* C15 (as claimed): an operation called with a card id that matches no
\* card leaves the aggregate unchanged and returns normally.
C15_UnknownIdIsNoOp ==
    [][last'.outcome = "unknown-id" => (settings' = settings /\ ~threw')]_vars

\* C16 (as claimed): no public store operation raises an error to its
\* caller, also when the persistence write fails.
C16_NoOperationThrows == ~threw

\* C17 (as claimed): after a pointer-move of a drag gesture the card's
\* absolute rectangle lies within [0, viewportWidth] x
\* [headerOffset, viewportHeight].
C17_DragStaysInViewport ==
    (last.op = "mousemove" /\ last.outcome = "drag") =>
        LET card == safeCard(settings, component) IN
        /\ 0 <= card.position.x
        /\ card.position.x + card.dimensions.width <= component.window.innerWidth
        /\ headerHeight <= card.position.y
        /\ card.position.y + card.dimensions.height <= component.window.innerHeight

\* C18 (as claimed): after a pointer-move of a resize gesture the width is
\* at least 200, the height at least 150, and the card ends at or before
\* the right and bottom edges of the viewport.
C18_ResizeWithinLimits ==
    (last.op = "mousemove" /\ last.outcome = "resize") =>
        LET card == safeCard(settings, component) IN
        /\ card.dimensions.width >= MinCardWidth
        /\ card.dimensions.height >= MinCardHeight
        /\ card.position.x + card.dimensions.width <= component.window.innerWidth
        /\ card.position.y + card.dimensions.height <= component.window.innerHeight

\* the listener is registered on document
attached(comp, l) == \E i \in 1..Len(comp.listeners) : comp.listeners[i] = l

\* C19: in every state the move and up listeners of a gesture are both
\* attached when the gesture is active and both absent when it is idle,
\* and no listener is attached twice.
C19_ListenersWhileActive ==
    /\ component.isDragging =>
          attached(component, DragMove) /\ attached(component, DragUp)
    /\ ~component.isDragging =>
          ~attached(component, DragMove) /\ ~attached(component, DragUp)
    /\ component.isResizing =>
          attached(component, ResizeMove) /\ attached(component, ResizeUp)
    /\ ~component.isResizing =>
          ~attached(component, ResizeMove) /\ ~attached(component, ResizeUp)
    /\ \A i, j \in 1..Len(component.listeners) :
          component.listeners[i] = component.listeners[j] => i = j

\* two pointer-downs came without a pointer-up between them, and the
\* pointer-up that followed ended both gestures
C19_Witness ==
    /\ last.op = "mouseup" /\ last.outcome = "both"
    /\ ~component.isDragging /\ ~component.isResizing
    /\ component.listeners = << >>

C21_SnapUsesHeaderOffset ==
    [][(last'.op = "snapToGrid" /\ last'.outcome = "committed") =>
         \A id \in CardIds, x \in SnapXs, y \in SnapYs :
             snapToGrid(id, x, y) =>
                 LET i == findIndex(settings.cards, id)
                     before == settings.cards[i].gridPosition
                     after == settings'.cards[i]
                     cell == settings.gridCellSize
                 IN /\ after.gridPosition.col =
                          Max(0, Min(MathRound(x, cell.width),
                                     settings.gridSize.cols - before.colSpan))
                    /\ after.gridPosition.row =
                          Max(0, Min(MathRound(y - 88, cell.height),
                                     settings.gridSize.rows - before.rowSpan))
                    /\ after.gridPosition.rowSpan = before.rowSpan
                    /\ after.gridPosition.colSpan = before.colSpan
                    /\ after.isSnappedToGrid
      ]_vars

\* C22 (as claimed): in every state the value the settings UI derives from
\* its subscription is the store's card collection sorted ascending by
\* order, and the subscription callback completes without error.
C22_SubscriptionYieldsSortedCards ==
    /\ ~derivedCards.threw
    /\ derivedCards.cards = sortByOrder(settings.cards)

\* C23: expandCard and snapToGrid report a collision exactly when the
\* candidate rectangle shares a grid cell with another card that is
\* enabled and has a grid position; the card itself, disabled cards and
\* cards without a grid position never count.
C23_CollisionIsSharedCell ==
    [][(last'.op \in {"expandCard", "snapToGrid"}) =>
         LET card == settings.cards[1] IN
         /\ \A d \in Directions :
               expandCard("system-info", d) =>
                   ((last'.outcome = "collision") <=>
                       CandidateHits(settings, 1,
                           expandGridPos(card.gridPosition, d, settings.gridSize)))
         /\ \A x \in SnapXs, y \in SnapYs :
               snapToGrid("system-info", x, y) =>
                   ((last'.outcome = "collision") <=>
                       CandidateHits(settings, 1, snapGridPos(card, x, y, settings)))
      ]_vars

\* a candidate was committed onto cells of a disabled card
C23_Witness ==
    /\ last.op \in {"expandCard", "snapToGrid"} /\ last.outcome = "committed"
    /\ ~settings.cards[2].enabled
    /\ HasGrid(settings.cards[2])
    /\ Cells(settings.cards[1].gridPosition)
          \cap Cells(settings.cards[2].gridPosition) # {}

\* every card's grid rectangle lies inside the grid extent
InsideGrid(s) ==
    \A i \in IndexOf(s) :
        LET g == s.cards[i].gridPosition IN
        /\ 0 <= g.row /\ g.row + g.rowSpan <= s.gridSize.rows
        /\ 0 <= g.col /\ g.col + g.colSpan <= s.gridSize.cols

\* the rectangle one cell larger in the direction, the opposite edge fixed
GrownByOne(g, direction) ==
    CASE direction = "up" ->
            [row |-> g.row - 1, col |-> g.col,
             rowSpan |-> g.rowSpan + 1, colSpan |-> g.colSpan]
      [] direction = "down" ->
            [row |-> g.row, col |-> g.col,
             rowSpan |-> g.rowSpan + 1, colSpan |-> g.colSpan]
      [] direction = "left" ->
            [row |-> g.row, col |-> g.col - 1,
             rowSpan |-> g.rowSpan, colSpan |-> g.colSpan + 1]
      [] direction = "right" ->
            [row |-> g.row, col |-> g.col,
             rowSpan |-> g.rowSpan, colSpan |-> g.colSpan + 1]

\* C24: starting from the default settings every card's rectangle stays
\* inside the grid extent after any sequence of expandCard, shrinkCard and
\* snapToGrid, and an expandCard that succeeds grows the card's rectangle
\* by exactly one cell in the given direction.
C24_ExpandByOneInsideGrid ==
    /\ [](InsideGrid(settings))
    /\ [][(last'.op = "expandCard" /\ last'.outcome = "committed") =>
            \A id \in CardIds, d \in Directions :
                expandCard(id, d) =>
                    LET i == findIndex(settings.cards, id) IN
                    settings'.cards[i].gridPosition =
                        GrownByOne(settings.cards[i].gridPosition, d)
         ]_vars

\* an expandCard succeeded and the card now ends at the last column
C24_Witness ==
    /\ last.op = "expandCard" /\ last.outcome = "committed"
    /\ \E i \in IndexOf(settings) :
          LET g == settings.cards[i].gridPosition IN
          /\ g # defaultCards[i].gridPosition
          /\ g.col + g.colSpan = settings.gridSize.cols

\* the rectangle one cell smaller, contracted from the named side
ShrunkByOne(g, direction) ==
    CASE direction = "up" ->
            [row |-> g.row + 1, col |-> g.col,
             rowSpan |-> g.rowSpan - 1, colSpan |-> g.colSpan]
      [] direction = "down" ->
            [row |-> g.row, col |-> g.col,
             rowSpan |-> g.rowSpan - 1, colSpan |-> g.colSpan]
      [] direction = "left" ->
            [row |-> g.row, col |-> g.col + 1,
             rowSpan |-> g.rowSpan, colSpan |-> g.colSpan - 1]
      [] direction = "right" ->
            [row |-> g.row, col |-> g.col,
             rowSpan |-> g.rowSpan, colSpan |-> g.colSpan - 1]

\* the span shrinkCard reduces in the direction
SpanAlong(g, direction) ==
    IF direction \in {"up", "down"} THEN g.rowSpan ELSE g.colSpan

\* C25: shrinkCard on a span greater than 1 contracts the card by exactly
\* one cell from the named side and recomputes position and dimensions
\* from the new rectangle; services-list at row 0, col 2, 2 x 3 shrunk from
\* the left is at row 0, col 3, 2 x 2, position (600, 88), 400 x 300.
C25_ShrinkByOne ==
    [][(last'.op = "shrinkCard") =>
         \A id \in CardIds, d \in Directions :
             LET i == findIndex(settings.cards, id)
                 g == settings.cards[i].gridPosition
             IN (shrinkCard(id, d) /\ SpanAlong(g, d) > 1) =>
                   /\ settings'.cards[i].gridPosition = ShrunkByOne(g, d)
                   /\ GeometryOf(settings'.cards[i], settings')
                   /\ (/\ id = "services-list" /\ d = "left"
                       /\ g = [row |-> 0, col |-> 2, rowSpan |-> 2, colSpan |-> 3])
                      => /\ settings'.cards[i].gridPosition =
                               [row |-> 0, col |-> 3, rowSpan |-> 2, colSpan |-> 2]
                         /\ settings'.cards[i].position = [x |-> 600, y |-> 88]
                         /\ settings'.cards[i].dimensions =
                               [width |-> 400, height |-> 300]
      ]_vars

\* services-list was shrunk from the left
C25_Witness ==
    /\ last.op = "shrinkCard" /\ last.outcome = "committed"
    /\ settings.cards[2].gridPosition =
          [row |-> 0, col |-> 3, rowSpan |-> 2, colSpan |-> 2]
    /\ settings.cards[2].position = [x |-> 600, y |-> 88]

\* two cards with a grid position share a cell
Overlap(s, i, j) ==
    /\ HasGrid(s.cards[i]) /\ HasGrid(s.cards[j])
    /\ Cells(s.cards[i].gridPosition) \cap Cells(s.cards[j].gridPosition) # {}

\* C26: after any shrinkCard every card's grid rectangle is contained in
\* its rectangle before the call, so no two cards overlap that did not
\* overlap before.
C26_ShrinkOnlyReduces ==
    [][(last'.op = "shrinkCard") =>
         /\ \A i \in IndexOf(settings) :
               Cells(settings'.cards[i].gridPosition)
                   \subseteq Cells(settings.cards[i].gridPosition)
         /\ \A i \in IndexOf(settings), j \in IndexOf(settings) :
               (i # j /\ Overlap(settings', i, j)) => Overlap(settings, i, j)
      ]_vars

\* a shrinkCard left a card without a cell of its default rectangle
C26_Witness ==
    /\ last.op = "shrinkCard" /\ last.outcome = "committed"
    /\ \E i \in IndexOf(settings) :
          Cells(defaultCards[i].gridPosition)
              \ Cells(settings.cards[i].gridPosition) # {}

\* the card of the followed component
CardOf(s) == safeCard(s, component)

\* C27: a pointer-up ends the active drag (resize) gesture, a gesture that
\* is idle stays idle until the next pointer-down of its kind, and a
\* pointer-move leaves the position (dimensions) alone while the drag
\* (resize) gesture is idle; with both idle it changes nothing in the
\* store and writes nothing.
C27_IdleAfterUp ==
    [][/\ (last'.op = "mouseup") =>
             ~component'.isDragging /\ ~component'.isResizing
       /\ (~component.isDragging /\ last' # [op |-> "mousedown", outcome |-> "drag"])
             => ~component'.isDragging
       /\ (~component.isResizing /\ last' # [op |-> "mousedown", outcome |-> "resize"])
             => ~component'.isResizing
       /\ (last'.op = "mousemove" /\ ~component.isDragging)
             => CardOf(settings').position = CardOf(settings).position
       /\ (last'.op = "mousemove" /\ ~component.isResizing)
             => CardOf(settings').dimensions = CardOf(settings).dimensions
       /\ (last'.op = "mousemove" /\ ~component.isDragging /\ ~component.isResizing)
             => settings' = settings /\ persisted' = persisted
      ]_vars

\* a pointer-move arrived after a drag that had moved the card was ended
C27_Witness ==
    /\ last = [op |-> "mousemove", outcome |-> "none"]
    /\ ~component.isDragging /\ ~component.isResizing
    /\ component.dragStartPos = [x |-> 100, y |-> 150]
    /\ CardOf(settings).position # component.dragStartCardPos

\* neither gesture of the card is active
Idle(comp) == ~comp.isDragging /\ ~comp.isResizing

\* C28: a pointer-down on the resize handle starts the resize gesture and
\* leaves the drag gesture as it was; a pointer-down that finds the card
\* idle, as every pointer-down does when downs and ups alternate, leaves
\* exactly one gesture active, and pointer-moves start none, so drag and
\* resize are not active together.
C28_ResizeDownStartsOnlyResize ==
    [][/\ (last' = [op |-> "mousedown", outcome |-> "resize"]) =>
             /\ component'.isResizing
             /\ component'.isDragging = component.isDragging
             /\ ~attached(component, DragMove) => ~attached(component', DragMove)
             /\ ~attached(component, DragUp) => ~attached(component', DragUp)
       /\ (last'.op = "mousedown" /\ Idle(component)) =>
             ~(component'.isDragging /\ component'.isResizing)
       /\ (last'.op = "mousemove") =>
             /\ component'.isDragging = component.isDragging
             /\ component'.isResizing = component.isResizing
       /\ (last'.op = "mouseup") => Idle(component')
      ]_vars

\* after a finished drag the resize handle was pressed
C28_Witness ==
    /\ last = [op |-> "mousedown", outcome |-> "resize"]
    /\ component.isResizing /\ ~component.isDragging
    /\ component.dragStartPos = [x |-> 100, y |-> 150]
    /\ component.listeners = <<ResizeMove, ResizeUp>>

\* the aggregate with the followed card back where the drag gesture began
AtDragStart(s, comp) ==
    [s EXCEPT ![ "cards" ][findIndex(s.cards, comp.cardId)].position =
                  comp.dragStartCardPos]

\* C29: within a drag gesture the position a pointer-move commits is the
\* one the same pointer-move commits as the first move of the gesture: a
\* move sequence e1, e and the sequence e alone commit the same position,
\* and every drag move of a run commits what it would commit with the card
\* still at the gesture's start position.
C29_DragIgnoresEarlierMoves ==
    /\ [](component.isDragging =>
            \A e1 \in MovePoints, e \in MovePoints :
                CardOf(handleMouseMove(handleMouseMove(settings, component, e1),
                                       component, e)).position
                    = CardOf(handleMouseMove(settings, component, e)).position)
    /\ [][(last' = [op |-> "mousemove", outcome |-> "drag"]) =>
            /\ component' = component
            /\ \A e \in MovePoints :
                  MouseMove(e) =>
                      CardOf(settings').position =
                          CardOf(handleMouseMove(AtDragStart(settings, component),
                                                 component, e)).position
         ]_vars

\* a move of a running drag gesture has taken the card away from the
\* position at which the gesture began
C29_Witness ==
    /\ last = [op |-> "mousemove", outcome |-> "drag"]
    /\ component.isDragging /\ ~component.isResizing
    /\ CardOf(settings).position # component.dragStartCardPos
    /\ budget > 0

\* startCardPosition + delta, clamped to the viewport below the header
ClampedCandidate(s, comp, e) ==
    LET card == safeCard(s, comp)
        w == comp.window
    IN [x |-> Max(0, Min(w.innerWidth - card.dimensions.width,
                         comp.dragStartCardPos.x + e.clientX - comp.dragStartPos.x)),
        y |-> Max(headerHeight + w.scrollY,
                  Min(w.innerHeight + w.scrollY - card.dimensions.height,
                      comp.dragStartCardPos.y + e.clientY - comp.dragStartPos.y))]

\* the grid line nearest to the candidate on each axis: a multiple of the
\* live cell width, and a multiple of the live cell height below the header
NearestGridLine(s, comp, c) ==
    LET cw == comp.window.innerWidth \div s.gridSize.cols
        ch == (comp.window.innerHeight - headerHeight) \div s.gridSize.rows
        top == headerHeight + comp.window.scrollY
    IN [x |-> MathRound(c.x, cw) * cw,
        y |-> MathRound(c.y - top, ch) * ch + top]

ClampedResize(s, comp, e) ==
    LET card == safeCard(s, comp)
        w == comp.window
    IN [width |-> Max(200, Min(w.innerWidth - card.position.x,
                               comp.resizeStartDimensions.width
                                   + e.clientX - comp.resizeStartPos.x)),
        height |-> Max(150, Min(w.innerHeight - card.position.y,
                                comp.resizeStartDimensions.height
                                    + e.clientY - comp.resizeStartPos.y))]

\* the live cell of a window
LiveCell(s, comp) ==
    [width |-> comp.window.innerWidth \div s.gridSize.cols,
     height |-> (comp.window.innerHeight - headerHeight) \div s.gridSize.rows]

\* the multiples of the live cell nearest to the candidate dimensions
NearestCellMultiple(s, comp, c) ==
    [width |-> MathRound(c.width, LiveCell(s, comp).width)
                   * LiveCell(s, comp).width,
     height |-> MathRound(c.height, LiveCell(s, comp).height)
                    * LiveCell(s, comp).height]

\* C31: in grid mode with magnetic snapping a resize pointer-move whose
\* clamped candidate width (height) is closer than snapThreshold to the
\* nearest multiple of the live cell width (height) commits that multiple,
\* and the committed width (height) is then at least one live cell.
C31_ResizeSnapsToCellMultiple ==
    [][(last' = [op |-> "mousemove", outcome |-> "resize"]
        /\ component.layoutMode = "grid" /\ settings.magneticSnapping) =>
         \A e \in MovePoints :
             MouseMove(e) =>
                 LET c == ClampedResize(settings, component, e)
                     n == NearestCellMultiple(settings, component, c)
                     d == CardOf(settings').dimensions
                 IN /\ Abs(c.width - n.width) < settings.snapThreshold =>
                          /\ d.width = n.width
                          /\ d.width >= LiveCell(settings, component).width
                    /\ Abs(c.height - n.height) < settings.snapThreshold =>
                          /\ d.height = n.height
                          /\ d.height >= LiveCell(settings, component).height
      ]_vars

\* a resize move was pulled from its candidate width onto a multiple of a
\* live cell width that differs from the stored cell width
C31_Witness ==
    /\ last = [op |-> "mousemove", outcome |-> "resize"]
    /\ component.layoutMode = "grid" /\ settings.magneticSnapping
    /\ LiveCell(settings, component).width # settings.gridCellSize.width
    /\ \E e \in MovePoints :
          LET c == ClampedResize(settings, component, e)
              n == NearestCellMultiple(settings, component, c)
          IN /\ c.width # n.width
             /\ Abs(c.width - n.width) < settings.snapThreshold
             /\ CardOf(settings).dimensions.width = n.width

\* a card apart from its order value
WithoutOrder(card) == [card EXCEPT !.order = 0]

C33_SnapOwnPositionKeepsCell ==
    [][(last'.op = "snapToGrid") =>
         \A id \in CardIds :
             LET i == findIndex(settings.cards, id)
                 card == settings.cards[i]
             IN (/\ card.position = gridToAbsolutePosition(card.gridPosition, settings)
                 /\ snapToGrid(id, card.position.x, card.position.y))
                => settings'.cards[i].gridPosition = card.gridPosition
      ]_vars

\* C34: an expandCard that changes the card's grid rectangle, followed at
\* once by shrinkCard of the same card in the same direction, restores the
\* rectangle: the rectangle shrinkCard computes from the one the expansion
\* left is the one the expansion found, and every shrinkCard commits the
\* rectangle computed that way.
C34_ShrinkUndoesExpand ==
    [][/\ (last' = [op |-> "expandCard", outcome |-> "committed"]) =>
             \A id \in CardIds, d \in Directions :
                 expandCard(id, d) =>
                     LET i == findIndex(settings.cards, id) IN
                     /\ settings'.cards[i].gridPosition
                            # settings.cards[i].gridPosition
                     /\ shrinkGridPos(settings'.cards[i].gridPosition, d)
                            = settings.cards[i].gridPosition
       /\ (last'.op = "shrinkCard") =>
             \A id \in CardIds, d \in Directions :
                 shrinkCard(id, d) =>
                     LET i == findIndex(settings.cards, id) IN
                     settings'.cards[i].gridPosition =
                         shrinkGridPos(settings.cards[i].gridPosition, d)
      ]_vars

\* the second operation of a run was a shrinkCard that took back the
\* expansion before it: every card has its default rectangle again and one
\* card has the geometry recomputed from it
C34_Witness ==
    /\ last = [op |-> "shrinkCard", outcome |-> "committed"]
    /\ budget = MaxSteps - 2
    /\ \A i \in 1..Len(settings.cards) :
          settings.cards[i].gridPosition = defaultCards[i].gridPosition
    /\ \E i \in 1..Len(settings.cards) :
          /\ settings.cards[i].position # defaultCards[i].position
          /\ GeometryOf(settings.cards[i], settings)

\* a step changes nothing of the aggregate but the card of the given id
OnlyCardChanged(id) ==
    /\ Len(settings'.cards) = Len(settings.cards)
    /\ \A i \in 1..Len(settings.cards) :
          /\ settings'.cards[i].id = settings.cards[i].id
          /\ settings.cards[i].id # id => settings'.cards[i] = settings.cards[i]
    /\ [settings' EXCEPT !.cards = settings.cards] = settings

IdsOf(cards) == [k \in 1..Len(cards) |-> cards[k].id]

\* C36: whatever the persisted entry holds, the card collection of a store
\* that was just constructed has exactly the four default ids, each once,
\* in the default sequence.
C36_LoadedCardsAreTheDefaultIds ==
    (last.op = "createSettings") =>
        IdsOf(settings.cards) = IdsOf(defaultCards)

\* the store was constructed from an entry whose cards are in another
\* sequence than the defaults
C36_Witness ==
    /\ last.op = "createSettings"
    /\ persisted.kind = "object"
    /\ "cards" \in DOMAIN persisted
    /\ Len(persisted.cards) = Len(defaultCards)
    /\ IdsOf(persisted.cards) # IdsOf(defaultCards)
    /\ IdsOf(settings.cards) = IdsOf(defaultCards)

\* C37 (as claimed): in grid mode, for a card with a gridPosition and every
\* direction, canExpand(direction) holds exactly when the boundary test of
\* the store's expandCard for that direction passes, and canShrink(direction)
\* exactly when shrinkCard would reduce the span in that direction.
C37_ArrowsAgreeWithStore ==
    (component.layoutMode = "grid"
     /\ safeCard(settings, component).gridPosition # NoGridPosition) =>
        \A d \in Directions :
            LET gridPos == safeCard(settings, component).gridPosition IN
            /\ canExpand(settings, component, d)
                  <=> (expandGridPos(gridPos, d, settings.gridSize) # gridPos)
            /\ canShrink(settings, component, d)
                  <=> (shrinkGridPos(gridPos, d) # gridPos)

====
